---- MODULE Spec2Model ----
(***************************************************************************)
(* Model of the SQL log indexer of Frontier (client/db/src/sql/mod.rs).    *)
(*                                                                         *)
(* The committed content of the SQLite file is the pair of tables          *)
(* sync_status and logs, each a bag (multiset) of rows.  An     *)
(* indexing cycle (Backend::spawn_logs_task) runs inside one transaction:  *)
(* the rows it wrote are kept in tx[c] and reach the tables at COMMIT      *)
(* only.  SQLite has one writer at a time: the UPDATE of the claim takes   *)
(* the write lock of the file and holds it until COMMIT or ROLLBACK, and   *)
(* any other write statement waits for it.                                 *)
(***************************************************************************)
EXTENDS Integers, Sequences, FiniteSets, Bags, TLC

\* ------------------------------------------------------------------ bounds
NumHashes == 3
NumCycles == 2
MaxInsert == 2
MaxUndecodable == 1
MaxReceipts == 2
MaxLogs == 2
MaxTopics == 5

\* BatchSize stands for the batch size handed to Backend::spawn_logs_task.
BatchSize == NumHashes - 1

\* ------------------------------------------------------- program constants
Pending == 0
Indexed == 1
ZeroH256 == 0

\* A block height is held as two 16-bit limbs, [hi, lo] = hi * 2^16 + lo, so
\* that heights beyond 2^31 - 1 stay exact; hi above 2^16 - 1 is a height
\* beyond u32::MAX.
Limb == 65536

Hashes == 1..NumHashes
Cycles == 1..NumCycles
NoWriter == 0

VARIABLES
    sync_status,     \* committed table sync_status: bag of [substrate_block_hash, status]
    logs,            \* committed table logs: bag of Log rows
    writer,          \* the cycle whose transaction holds the write lock, or NoWriter
    pc,              \* pc[c]: position of cycle c in spawn_logs_task
    tx,              \* tx[c]: the tables as seen inside the open transaction of c
    claimed,         \* claimed[c]: hashes of the rows the UPDATE .. RETURNING of c returned
    to_index,        \* to_index[c]: the decoded hashes handed to spawn_logs_task_inner
    task_logs,       \* task_logs[c]: the Vec<Log> returned by spawn_logs_task_inner
    idx,             \* idx[c]: position of the insert loop in task_logs[c]
    iss_result,      \* result of the last insert_sync_status call
    committedClaims, \* history: hashes claimed by a cycle that committed
    committedWhileOpen, \* history: committedWhileOpen[c]: another cycle committed
                     \* claimed rows while the transaction of c was open
    chain,           \* the ledger: chain[h] = [number, receipts] of block h
    cyclesDone,      \* number of cycles that committed, when counting
    counting,        \* whether the run counts its committed cycles
    overrides,       \* the OverrideHandle of the Backend: the registered schemas
    objects,         \* the tables and indexes that exist in the database file
    new_result       \* result of create_if_not_exists in Backend::new

cycleVars == <<pc, tx, claimed, to_index, task_logs, idx>>
histVars == <<committedClaims, committedWhileOpen>>
envVars == <<chain, overrides, objects, new_result>>
vars == <<sync_status, logs, writer, pc, tx, claimed, to_index, task_logs, idx,
          iss_result, committedClaims, committedWhileOpen, chain, cyclesDone, counting,
          overrides, objects, new_result>>

\* ------------------------------------------------------------ the ledger
Topic(k) == 10 + k
Address(n) == 170 + (n % 2)

\* An ethereum log with n topics.
EthLog(n) == [address |-> Address(n), topics |-> [k \in 1..n |-> Topic(k)]]

Height(n) == [hi |-> n \div Limb, lo |-> n % Limb]

\* client.number(hash) is not Ok(Some(_)) for the block.
NoNumber == [hi |-> -1, lo |-> -1]

\* Receipts of block h as the handler returns them (unwrap_or_default applied).
DefaultReceipts(h) ==
    CASE h % 3 = 1 -> << <<>>, <<EthLog(1)>> >>
      [] h % 3 = 2 -> << <<EthLog(0), EthLog(2)>> >>
      [] OTHER     -> <<>>

\* EthereumStorageSchema
Schemas == {"Undefined", "V1", "V2", "V3"}

\* What client.storage(at, PALLET_ETHEREUM_SCHEMA) gives for a block: bytes
\* that decode to a schema, Err ("unreadable"), Ok(None) ("absent"), or bytes
\* that do not decode ("undecodable").
Slots == Schemas \cup {"unreadable", "absent", "undecodable"}

\* The decoder strategies of an OverrideHandle: one per registered schema,
\* and the fallback.
Handlers == Schemas \cup {"fallback"}

DefaultSlot(h) ==
    CASE h % 4 = 1 -> "V3"
      [] h % 4 = 2 -> "absent"
      [] h % 4 = 3 -> "undecodable"
      [] OTHER     -> "unreadable"

\* chain[h].readable: the handlers whose current_receipts gives Some(receipts)
\* for block h.
DefaultChain ==
    [h \in Hashes |->
        [number |-> IF h % 2 = 0 THEN NoNumber ELSE Height(h),
         receipts |-> DefaultReceipts(h),
         slot |-> DefaultSlot(h),
         readable |-> Handlers]]

DefaultOverrides == [schemas |-> Schemas \ {"Undefined"}]

\* The objects the DDL of create_if_not_exists names, in its order.
DDL == <<"logs", "sync_status", "block_number_idx", "topic_1_idx", "topic_2_idx",
         "topic_3_idx", "topic_4_idx">>

SchemaObjects == {DDL[i] : i \in DOMAIN DDL}

\* --------------------------------------------------------- table helpers
Rows(table) == BagToSet(table)

HashesOf(table) == {r.substrate_block_hash : r \in Rows(table)}

StatusOf(table, h) == {r.status : r \in {q \in Rows(table) : q.substrate_block_hash = h}}

NaturalKey(log) == <<log.log_index, log.transaction_index, log.substrate_block_hash>>

KeysOf(table) == {NaturalKey(r) : r \in Rows(table)}

\* UNIQUE (substrate_block_hash) of sync_status.
SyncStatusUnique(table) ==
    \A r, q \in Rows(table) :
        /\ CopiesIn(r, table) = 1
        /\ r.substrate_block_hash = q.substrate_block_hash => r = q

\* UNIQUE (log_index, transaction_index, substrate_block_hash) of logs.
LogsUnique(table) ==
    \A r, q \in Rows(table) :
        /\ CopiesIn(r, table) = 1
        /\ NaturalKey(r) = NaturalKey(q) => r = q

Min(a, b) == IF a <= b THEN a ELSE b

\* All orders in which the elements of S can be returned.
OrdersOf(S) ==
    {s \in [1..Cardinality(S) -> S] : \A i, j \in 1..Cardinality(S) : s[i] = s[j] => i = j}

\* ------------------------------------------------- spawn_logs_task_inner
\* UniqueSaturatedInto::<u32>: heights above u32::MAX saturate.
UniqueSaturatedIntoU32(number) ==
    IF number.hi > Limb - 1 THEN [hi |-> Limb - 1, lo |-> Limb - 1] ELSE number

\* `as i32` of a u32: two's complement reinterpretation of the 32 bits.
AsI32(u) ==
    IF u.hi > (Limb \div 2) - 1
    THEN (u.hi - Limb) * Limb + u.lo
    ELSE u.hi * Limb + u.lo

\* Mutant of substrate_block_number: a block without number gets -1.
substrate_block_number_neg(h) ==
    IF chain[h].number = NoNumber
    THEN -1
    ELSE AsI32(UniqueSaturatedIntoU32(chain[h].number))

\* if let Ok(Some(number)) = client.number(hash) { .. as i32 } else { 0i32 }
substrate_block_number(h) ==
    IF chain[h].number = NoNumber
    THEN 0
    ELSE AsI32(UniqueSaturatedIntoU32(chain[h].number))

\* match client.storage(..) { Ok(Some(bytes)) => decode(bytes).ok()
\*     .unwrap_or(Undefined), _ => Undefined }
onchain_storage_schema(h) ==
    IF chain[h].slot \in Schemas THEN chain[h].slot ELSE "Undefined"

\* Mutant of Handler: a schema that is not registered is looked up as it is.
Handler_nofallback(h) == onchain_storage_schema(h)

\* overrides.schemas.get(&schema).unwrap_or(&overrides.fallback)
Handler(h) ==
    IF onchain_storage_schema(h) \in overrides.schemas
    THEN onchain_storage_schema(h)
    ELSE "fallback"

\* handler.current_receipts(&id).unwrap_or_default()
Receipts(h) ==
    IF Handler(h) \in chain[h].readable THEN chain[h].receipts ELSE <<>>

\* log.topics.get(k - 1).unwrap_or(&H256::zero())
TopicAt(topics, k) == IF k <= Len(topics) THEN topics[k] ELSE ZeroH256

MakeLog(log, log_index, transaction_index, h) ==
    [block_number |-> substrate_block_number(h),
     address |-> log.address,
     topic_1 |-> TopicAt(log.topics, 1),
     topic_2 |-> TopicAt(log.topics, 2),
     topic_3 |-> TopicAt(log.topics, 3),
     topic_4 |-> TopicAt(log.topics, 4),
     log_index |-> log_index,
     transaction_index |-> transaction_index,
     substrate_block_hash |-> h]

\* Mutant of ReceiptLogs: log_index counts from one.
ReceiptLogs_from1(receipt_logs, transaction_index, h) ==
    [l \in 1..Len(receipt_logs) |-> MakeLog(receipt_logs[l], l, transaction_index, h)]

\* for (log_index, log) in receipt_logs.iter().enumerate()
ReceiptLogs(receipt_logs, transaction_index, h) ==
    [l \in 1..Len(receipt_logs) |-> MakeLog(receipt_logs[l], l - 1, transaction_index, h)]

\* for (transaction_index, receipt) in receipts.iter().enumerate(), from receipt t on
RECURSIVE BlockLogs(_, _, _)
BlockLogs(receipts, t, h) ==
    IF t > Len(receipts) THEN <<>>
    ELSE ReceiptLogs(receipts[t], t - 1, h) \o BlockLogs(receipts, t + 1, h)

\* for substrate_block_hash in hashes.iter()
RECURSIVE spawn_logs_task_inner(_)
spawn_logs_task_inner(hashes) ==
    IF hashes = <<>> THEN <<>>
    ELSE BlockLogs(Receipts(Head(hashes)), 1, Head(hashes))
         \o spawn_logs_task_inner(Tail(hashes))

\* ------------------------------------------------------- SQL statements
\* Mutant of ClaimCandidates: the subquery lacks WHERE status = 0.
ClaimCandidates_all(table) == {r.substrate_block_hash : r \in Rows(table)}

\* SELECT substrate_block_hash FROM sync_status WHERE status = 0
ClaimCandidates(table) ==
    {r.substrate_block_hash : r \in {q \in Rows(table) : q.status = Pending}}

\* Mutant of BatchLimit: the limit is one short.
BatchLimit_short(n, batch_size) == Min(n, batch_size - 1)

\* LIMIT batch_size: how many of n candidate rows the subquery returns.
BatchLimit(n, batch_size) == Min(n, batch_size)

\* Mutant of UpdateClaim: the rows are returned and their status is left.
UpdateClaim_skip(table, S) == table

\* UPDATE sync_status SET status = 1 WHERE substrate_block_hash IN S
UpdateClaim(table, S) ==
    LET kept == {r \in Rows(table) : r.substrate_block_hash \notin S}
        updated == {[r EXCEPT !.status = Indexed] :
                        r \in {q \in Rows(table) : q.substrate_block_hash \in S}}
    IN  [r \in kept \cup updated |->
            IF r \in updated
            THEN CopiesIn(r, table) + CopiesIn([r EXCEPT !.status = Pending], table)
            ELSE CopiesIn(r, table)]

\* Mutant of InsertOrIgnoreLog: INSERT OR REPLACE, which deletes the row that
\* holds the natural key and inserts the new one.
InsertOrIgnoreLog_replace(table, log) ==
    LET kept == {r \in Rows(table) : NaturalKey(r) # NaturalKey(log)} IN
    [logs |-> [r \in kept |-> CopiesIn(r, table)] (+) SetToBag({log}),
     err |-> FALSE]

\* Mutant of InsertOrIgnoreLog: a plain INSERT, which fails on a present key.
InsertOrIgnoreLog_plain(table, log) ==
    [logs |-> IF NaturalKey(log) \in KeysOf(table) THEN table ELSE table (+) SetToBag({log}),
     err |-> NaturalKey(log) \in KeysOf(table)]

\* INSERT OR IGNORE INTO logs(..) VALUES (..): a row whose natural key is
\* present is skipped, and the statement succeeds.
InsertOrIgnoreLog(table, log) ==
    [logs |-> IF NaturalKey(log) \in KeysOf(table) THEN table ELSE table (+) SetToBag({log}),
     err |-> FALSE]

RECURSIVE PendingRows(_)
PendingRows(hashes) ==
    IF hashes = <<>> THEN EmptyBag
    ELSE SetToBag({[substrate_block_hash |-> Head(hashes), status |-> Pending]})
         (+) PendingRows(Tail(hashes))

\* Mutant of InsertSyncStatus: INSERT OR REPLACE, which deletes the row that
\* holds the hash and inserts a new one with the default status.
InsertSyncStatus_replace(table, hashes) ==
    LET given == {hashes[i] : i \in DOMAIN hashes}
        kept == {r \in Rows(table) : r.substrate_block_hash \notin given}
    IN  [sync_status |->
             [r \in kept |-> CopiesIn(r, table)]
             (+) SetToBag({[substrate_block_hash |-> h, status |-> Pending] : h \in given}),
         err |-> hashes = <<>>]

\* INSERT INTO sync_status(substrate_block_hash) VALUES (h1), (h2), ..
\* A plain INSERT: with no tuple after VALUES the statement does not parse;
\* a row that breaks UNIQUE (substrate_block_hash) fails the statement, which
\* undoes the rows it had inserted.  status takes its DEFAULT 0.
InsertSyncStatus(table, hashes) ==
    IF hashes = <<>>
    THEN [sync_status |-> table, err |-> TRUE]
    ELSE IF \/ \E i \in DOMAIN hashes : hashes[i] \in HashesOf(table)
            \/ \E i, j \in DOMAIN hashes : i # j /\ hashes[i] = hashes[j]
    THEN [sync_status |-> table, err |-> TRUE]
    ELSE [sync_status |-> table (+) PendingRows(hashes), err |-> FALSE]

\* Mutant of CanWrite: the claim does not wait for the write lock.
CanWrite_nolock(c) == TRUE

\* The write lock of the database file is free for a statement of cycle c.
CanWrite(c) == writer = NoWriter \/ writer = c

\* Mutant of CommitTables: the transaction is dropped where it should commit.
CommitTables_rollback(c) == [sync_status |-> sync_status, logs |-> logs]

\* Mutant of CommitTables: the logs table is written anew from the rows the
\* cycle inserted.
CommitTables_nologs(c) ==
    [sync_status |-> tx[c].sync_status,
     logs |-> SetToBag({task_logs[c][i] : i \in DOMAIN task_logs[c]})]

\* What COMMIT makes of the tables: the content of the transaction.
CommitTables(c) == tx[c]

\* Mutant of RollbackTables: the logs were inserted outside the transaction
\* and stay, the claim is undone.
RollbackTables_statusonly(c) ==
    [sync_status |-> sync_status,
     logs |-> IF pc[c] = "inserting" THEN tx[c].logs ELSE logs]

\* Mutant of RollbackTables: the rows written so far stay in the tables.
RollbackTables_keep(c) == tx[c]

\* What ROLLBACK (the drop of an open Transaction) makes of the tables.
RollbackTables(c) == [sync_status |-> sync_status, logs |-> logs]

\* Positions of a cycle whose transaction is open.
Open == {"begun", "claimed", "inserting"}

\* Positions of a task whose transaction is over.
Ended == {"committed", "claim_failed", "extract_failed", "insert_failed", "commit_failed"}

NoTx == [sync_status |-> EmptyBag, logs |-> EmptyBag]

\* ------------------------------------------------------------------ Init
InitCycles ==
    /\ writer = NoWriter
    /\ pc = [c \in Cycles |-> "idle"]
    /\ tx = [c \in Cycles |-> NoTx]
    /\ claimed = [c \in Cycles |-> {}]
    /\ to_index = [c \in Cycles |-> <<>>]
    /\ task_logs = [c \in Cycles |-> <<>>]
    /\ idx = [c \in Cycles |-> 0]
    /\ iss_result = "none"
    /\ committedClaims = {}
    /\ committedWhileOpen = [c \in Cycles |-> FALSE]
    /\ cyclesDone = 0

\* Backend::new returned Ok: the tables and indexes exist.
InitBackend ==
    /\ overrides = DefaultOverrides
    /\ objects = SchemaObjects
    /\ new_result = "Ok"

\* Backend::new on a new database file: both tables exist and are empty.
Init ==
    /\ sync_status = EmptyBag
    /\ logs = EmptyBag
    /\ chain = DefaultChain
    /\ InitBackend
    /\ counting = FALSE
    /\ InitCycles

\* ---------------------------------------------------- insert_sync_status
HashVecs == UNION {[1..n -> Hashes] : n \in 0..MaxInsert}

\* No task stands at its result: the return of a task (TaskEnd) touches
\* nothing another step reads, so it is taken before any other step.
NoneEnded == \A c \in Cycles : pc[c] \notin Ended

\* The statement runs on its own connection and waits for the write lock.
insert_sync_status(hashes) ==
    /\ NoneEnded
    /\ writer = NoWriter
    /\ LET r == InsertSyncStatus(sync_status, hashes) IN
        /\ sync_status' = r.sync_status
        /\ iss_result' = IF r.err THEN "Err" ELSE "Ok"
    /\ UNCHANGED <<logs, writer, cycleVars, histVars, envVars, cyclesDone, counting>>

\* ------------------------------------------------------- spawn_logs_task
\* The transaction of cycle c is over and the lock is free; the task stays at
\* its result `how` until it ends.
EndTx(c, how) ==
    /\ pc' = [pc EXCEPT ![c] = how]
    /\ tx' = [tx EXCEPT ![c] = NoTx]
    /\ to_index' = [to_index EXCEPT ![c] = <<>>]
    /\ task_logs' = [task_logs EXCEPT ![c] = <<>>]
    /\ idx' = [idx EXCEPT ![c] = 0]
    /\ writer' = IF writer = c THEN NoWriter ELSE writer
    /\ UNCHANGED <<claimed, iss_result, envVars, counting>>

\* An error leaves the async block by `?`: tx is dropped, which rolls back.
Abort(c, how) ==
    /\ EndTx(c, how)
    /\ sync_status' = RollbackTables(c).sync_status
    /\ logs' = RollbackTables(c).logs
    /\ UNCHANGED <<histVars, cyclesDone>>

\* let mut tx = pool.begin().await?
Begin(c) ==
    /\ NoneEnded
    /\ pc[c] = "idle"
    /\ pc' = [pc EXCEPT ![c] = "begun"]
    /\ UNCHANGED <<sync_status, logs, writer, tx, claimed, to_index, task_logs, idx,
                   iss_result, histVars, envVars, cyclesDone, counting>>

\* The UPDATE .. RETURNING succeeds: S are the rows it updated and returned,
\* U those whose value try_get could not decode, order the order of the rest.
Claim(c, S, U, order) ==
    /\ NoneEnded
    /\ pc[c] = "begun"
    /\ CanWrite(c)
    /\ S \subseteq ClaimCandidates(sync_status)
    /\ Cardinality(S) = BatchLimit(Cardinality(ClaimCandidates(sync_status)), BatchSize)
    /\ U \subseteq S
    /\ order \in OrdersOf(S \ U)
    /\ writer' = c
    /\ tx' = [tx EXCEPT ![c] = [sync_status |-> UpdateClaim(sync_status, S), logs |-> logs]]
    /\ claimed' = [claimed EXCEPT ![c] = S]
    /\ to_index' = [to_index EXCEPT ![c] = order]
    /\ pc' = [pc EXCEPT ![c] = "claimed"]
    /\ UNCHANGED <<sync_status, logs, task_logs, idx, iss_result, histVars, envVars, cyclesDone, counting>>

\* Mutant of ClaimFail: the failed statement ran outside the transaction and
\* its update of the Pending rows stays.
ClaimFail_commit(c) ==
    /\ NoneEnded
    /\ pc[c] = "begun"
    /\ EndTx(c, "claim_failed")
    /\ sync_status' = UpdateClaim(sync_status, ClaimCandidates(sync_status))
    /\ logs' = logs
    /\ UNCHANGED <<histVars, cyclesDone>>

\* Err(e) => Err(e): the claim query failed.
ClaimFail(c) ==
    /\ NoneEnded
    /\ pc[c] = "begun"
    /\ Abort(c, "claim_failed")

\* spawn_blocking(spawn_logs_task_inner) returned the logs of the batch.
Extract(c) ==
    /\ NoneEnded
    /\ pc[c] = "claimed"
    /\ task_logs' = [task_logs EXCEPT ![c] = spawn_logs_task_inner(to_index[c])]
    /\ idx' = [idx EXCEPT ![c] = 1]
    /\ pc' = [pc EXCEPT ![c] = "inserting"]
    /\ UNCHANGED <<sync_status, logs, writer, tx, claimed, to_index, iss_result,
                   histVars, envVars, cyclesDone, counting>>

\* The blocking task failed to return: "tokio blocking task failed".
ExtractFail(c) ==
    /\ NoneEnded
    /\ pc[c] = "claimed"
    /\ Abort(c, "extract_failed")

\* One round of `for log in logs.iter()`: the INSERT OR IGNORE executed.
InsertLog(c) ==
    /\ NoneEnded
    /\ pc[c] = "inserting"
    /\ idx[c] <= Len(task_logs[c])
    /\ LET r == InsertOrIgnoreLog(tx[c].logs, task_logs[c][idx[c]]) IN
        IF r.err
        THEN Abort(c, "insert_failed")
        ELSE /\ tx' = [tx EXCEPT ![c].logs = r.logs]
             /\ idx' = [idx EXCEPT ![c] = idx[c] + 1]
             /\ UNCHANGED <<sync_status, logs, writer, pc, claimed, to_index, task_logs,
                            iss_result, histVars, envVars, cyclesDone, counting>>

\* The execute of one INSERT returned an error of the engine.
InsertFail(c) ==
    /\ NoneEnded
    /\ pc[c] = "inserting"
    /\ idx[c] <= Len(task_logs[c])
    /\ Abort(c, "insert_failed")

\* Ok(tx.commit().await?)
Commit(c) ==
    /\ NoneEnded
    /\ pc[c] = "inserting"
    /\ idx[c] > Len(task_logs[c])
    /\ sync_status' = CommitTables(c).sync_status
    /\ logs' = CommitTables(c).logs
    /\ committedClaims' = committedClaims \cup claimed[c]
    /\ committedWhileOpen' =
           [d \in Cycles |->
               IF d # c /\ pc[d] \in Open /\ claimed[c] # {}
               THEN TRUE
               ELSE committedWhileOpen[d]]
    /\ cyclesDone' = IF counting THEN cyclesDone + 1 ELSE cyclesDone
    /\ EndTx(c, "committed")

\* tx.commit() returned an error.
CommitFail(c) ==
    /\ NoneEnded
    /\ pc[c] = "inserting"
    /\ idx[c] > Len(task_logs[c])
    /\ Abort(c, "commit_failed")

\* The spawned task returns (an error was logged by map_err).
TaskEnd(c) ==
    /\ pc[c] \in Ended
    /\ pc' = [pc EXCEPT ![c] = "idle"]
    /\ claimed' = [claimed EXCEPT ![c] = {}]
    /\ committedWhileOpen' = [committedWhileOpen EXCEPT ![c] = FALSE]
    /\ UNCHANGED <<sync_status, logs, writer, tx, to_index, task_logs, idx, iss_result,
                   committedClaims, envVars, cyclesDone, counting>>

\* ------------------------------------------------------------------ Next
ClaimStep(c, maxU) ==
    /\ NoneEnded
    /\ pc[c] = "begun"
    /\ CanWrite(c)
    /\ \E S \in SUBSET Hashes :
        \E U \in {u \in SUBSET S : Cardinality(u) <= maxU} :
            \E order \in OrdersOf(S \ U) : Claim(c, S, U, order)

Next ==
    \/ \E hashes \in HashVecs : insert_sync_status(hashes)
    \/ \E c \in Cycles : Begin(c)
    \/ \E c \in Cycles : ClaimStep(c, MaxUndecodable)
    \/ \E c \in Cycles : ClaimFail(c)
    \/ \E c \in Cycles : Extract(c)
    \/ \E c \in Cycles : ExtractFail(c)
    \/ \E c \in Cycles : InsertLog(c)
    \/ \E c \in Cycles : InsertFail(c)
    \/ \E c \in Cycles : Commit(c)
    \/ \E c \in Cycles : CommitFail(c)
    \/ \E c \in Cycles : TaskEnd(c)

Spec == Init /\ [][Next]_vars

\* -------------------------------------------------- the drain scenario
\* Cycles run one after another, none fails, and the run counts them.
CeilDiv(n, b) == (n + b - 1) \div b

MaxDrainCycles == CeilDiv(NumHashes, BatchSize) + 1

FirstCycle == CHOOSE c \in Cycles : \A d \in Cycles : c <= d

\* N rows, all Pending (after insert_sync_status calls), and no logs.
InitDrain ==
    /\ \E S \in SUBSET Hashes :
          sync_status = SetToBag({[substrate_block_hash |-> h, status |-> Pending] : h \in S})
    /\ logs = EmptyBag
    /\ chain = DefaultChain
    /\ InitBackend
    /\ counting = TRUE
    /\ InitCycles

DrainBegin ==
    /\ cyclesDone < MaxDrainCycles
    /\ Begin(FirstCycle)

NextDrain ==
    \/ DrainBegin
    \/ ClaimStep(FirstCycle, 0)
    \/ Extract(FirstCycle)
    \/ InsertLog(FirstCycle)
    \/ Commit(FirstCycle)
    \/ TaskEnd(FirstCycle)

SpecDrain == InitDrain /\ [][NextDrain]_vars

\* ------------------------------------------- a cycle in its open transaction
\* Cycle c holds the claim of the rows `order` names, all decoded.
InClaim(c, order) ==
    LET S == {order[i] : i \in DOMAIN order} IN
    /\ sync_status = SetToBag({[substrate_block_hash |-> h, status |-> Pending] : h \in S})
    /\ writer = c
    /\ tx = [d \in Cycles |->
                IF d = c
                THEN [sync_status |-> UpdateClaim(sync_status, S), logs |-> logs]
                ELSE NoTx]
    /\ claimed = [d \in Cycles |-> IF d = c THEN S ELSE {}]
    /\ to_index = [d \in Cycles |-> IF d = c THEN order ELSE <<>>]
    /\ iss_result = "Ok"
    /\ committedClaims = {}
    /\ committedWhileOpen = [d \in Cycles |-> FALSE]
    /\ cyclesDone = 0
    /\ counting = FALSE

\* ----------------------------------------------- the insert loop, alone
Range(seq) == {seq[i] : i \in DOMAIN seq}

\* The rows extraction yields for the blocks H, each block taken once.
ExtractedOnce(H) == UNION {Range(spawn_logs_task_inner(<<h>>)) : h \in H}

\* Rows the logs table may hold for the blocks of the chain: those extraction
\* yields, stored under the height resolved now or under another one.
KnownRows ==
    UNION {{r, [r EXCEPT !.block_number = r.block_number + 1]} : r \in ExtractedOnce(Hashes)}

\* The logs table holds any rows of the chain's blocks, and a cycle is about to
\* insert the logs of its batch.
InitInsert ==
    /\ chain = DefaultChain
    /\ InitBackend
    /\ \E X \in SUBSET KnownRows : LogsUnique(SetToBag(X)) /\ logs = SetToBag(X)
    /\ \E S \in SUBSET Hashes :
          /\ S # {}
          /\ Cardinality(S) <= BatchSize
          /\ \E order \in OrdersOf(S) :
                /\ InClaim(FirstCycle, order)
                /\ task_logs = [d \in Cycles |->
                       IF d = FirstCycle THEN spawn_logs_task_inner(order) ELSE <<>>]
    /\ pc = [d \in Cycles |-> IF d = FirstCycle THEN "inserting" ELSE "idle"]
    /\ idx = [d \in Cycles |-> IF d = FirstCycle THEN 1 ELSE 0]

NextInsert ==
    \/ InsertLog(FirstCycle)
    \/ Commit(FirstCycle)
    \/ TaskEnd(FirstCycle)

SpecInsert == InitInsert /\ [][NextInsert]_vars

\* ------------------------------------------------- extraction, alone
\* The receipts of a block with lens[t] logs in receipt t; the log at (t, l)
\* has (k + t + l) mod (MaxTopics + 1) topics.
ShapeBlock(lens, k) ==
    [t \in DOMAIN lens |->
        [l \in 1..lens[t] |-> EthLog((k + t + l) % (MaxTopics + 1))]]

LogCounts == UNION {[1..n -> 0..MaxLogs] : n \in 0..MaxReceipts}

\* Heights below and above 2^31 - 1 and u32::MAX, and an unknown block.
ExtractHeights ==
    {NoNumber,
     Height(5),
     [hi |-> (Limb \div 2) - 1, lo |-> Limb - 1],
     [hi |-> Limb \div 2, lo |-> 0],
     [hi |-> Limb - 1, lo |-> Limb - 1],
     [hi |-> Limb, lo |-> 7]}

ExtractVecs == {<<FirstCycle>>, <<FirstCycle, FirstCycle + 1>>, <<FirstCycle + 1, FirstCycle>>}

\* A cycle holds a claim; the first block of the chain has any shape.
InitExtract ==
    /\ \E lens \in LogCounts, k \in 0..MaxTopics, n \in ExtractHeights :
          chain = [DefaultChain EXCEPT
                      ![FirstCycle].number = n,
                      ![FirstCycle].receipts = ShapeBlock(lens, k)]
    /\ InitBackend
    /\ logs = EmptyBag
    /\ \E order \in ExtractVecs : InClaim(FirstCycle, order)
    /\ pc = [d \in Cycles |-> IF d = FirstCycle THEN "claimed" ELSE "idle"]
    /\ task_logs = [d \in Cycles |-> <<>>]
    /\ idx = [d \in Cycles |-> 0]

NextExtract ==
    \/ Extract(FirstCycle)
    \/ InsertLog(FirstCycle)
    \/ Commit(FirstCycle)
    \/ TaskEnd(FirstCycle)

SpecExtract == InitExtract /\ [][NextExtract]_vars

\* ------------------------------------------- schema resolution, alone
\* A cycle holds a claim; the schema slot of the first block, the handlers
\* that can read it and the registered schemas are any.
InitSchema ==
    /\ \E slot \in Slots, readable \in SUBSET Handlers :
          chain = [DefaultChain EXCEPT
                      ![FirstCycle].slot = slot,
                      ![FirstCycle].readable = readable]
    /\ \E schemas \in SUBSET Schemas : overrides = [schemas |-> schemas]
    /\ objects = SchemaObjects
    /\ new_result = "Ok"
    /\ logs = EmptyBag
    /\ \E order \in ExtractVecs : InClaim(FirstCycle, order)
    /\ pc = [d \in Cycles |-> IF d = FirstCycle THEN "claimed" ELSE "idle"]
    /\ task_logs = [d \in Cycles |-> <<>>]
    /\ idx = [d \in Cycles |-> 0]

NextSchema ==
    \/ Extract(FirstCycle)
    \/ InsertLog(FirstCycle)
    \/ Commit(FirstCycle)
    \/ TaskEnd(FirstCycle)

SpecSchema == InitSchema /\ [][NextSchema]_vars

\* ------------------------------------------------- Backend::new, alone
\* Mutant of CreateIfNotExists: CREATE without IF NOT EXISTS, which fails on
\* an object that exists.
CreateIfNotExists_exists(objs, name) ==
    [objects |-> objs \cup {name}, err |-> name \in objs]

\* CREATE TABLE IF NOT EXISTS name / CREATE INDEX IF NOT EXISTS name
CreateIfNotExists(objs, name) ==
    [objects |-> objs \cup {name}, err |-> FALSE]

\* The statements between BEGIN and COMMIT, one after another; the first
\* error ends the execution.
RECURSIVE RunDDL(_, _)
RunDDL(objs, stmts) ==
    IF stmts = <<>> THEN [objects |-> objs, err |-> FALSE]
    ELSE LET r == CreateIfNotExists(objs, Head(stmts)) IN
         IF r.err THEN [objects |-> objs, err |-> TRUE]
         ELSE RunDDL(r.objects, Tail(stmts))

\* The rows of a table after the DDL ran over the objects objs: a table
\* that was created is empty.
RowsAfterDDL(table, name, objs) == IF name \in objs THEN table ELSE EmptyBag

\* Any SyncStatus rows, one per hash.
StoredSyncStatus ==
    {SetToBag({[substrate_block_hash |-> h, status |-> st[h]] : h \in DOMAIN st}) :
         st \in UNION {[H -> {Pending, Indexed}] : H \in SUBSET Hashes}}

\* A process starts over a database file: the file holds both tables with
\* any rows and any of the indexes, or nothing.
InitCreate ==
    /\ chain = DefaultChain
    /\ overrides = DefaultOverrides
    /\ new_result = "none"
    /\ \/ /\ \E I \in SUBSET SchemaObjects :
                /\ {"logs", "sync_status"} \subseteq I
                /\ objects = I
          /\ sync_status \in StoredSyncStatus
          /\ \E X \in SUBSET ExtractedOnce(Hashes) : logs = SetToBag(X)
       \/ /\ objects = {}
          /\ sync_status = EmptyBag
          /\ logs = EmptyBag
    /\ counting = FALSE
    /\ InitCycles

\* let _ = Self::create_if_not_exists(&any_pool).await?
create_if_not_exists ==
    /\ new_result = "none"
    /\ LET r == RunDDL(objects, DDL) IN
        /\ objects' = r.objects
        /\ new_result' = IF r.err THEN "Err" ELSE "Ok"
        /\ sync_status' = RowsAfterDDL(sync_status, "sync_status", objects)
        /\ logs' = RowsAfterDDL(logs, "logs", objects)
    /\ UNCHANGED <<writer, cycleVars, iss_result, histVars, chain, overrides,
                   cyclesDone, counting>>

NextCreate == create_if_not_exists

SpecCreate == InitCreate /\ [][NextCreate]_vars

\* ------------------------------------------------------------- fairness
\* The most logs a batch can have on the chain of Init.
MaxBatchLogs == 2 * BatchSize

\* The cycles of one trigger loop, each of which may fail at any step, while
\* insert_sync_status adds hashes.
NextLive ==
    \/ \E hashes \in HashVecs : insert_sync_status(hashes)
    \/ Begin(FirstCycle)
    \/ ClaimStep(FirstCycle, 0)
    \/ ClaimFail(FirstCycle)
    \/ Extract(FirstCycle)
    \/ ExtractFail(FirstCycle)
    \/ InsertLog(FirstCycle)
    \/ InsertFail(FirstCycle)
    \/ Commit(FirstCycle)
    \/ CommitFail(FirstCycle)
    \/ TaskEnd(FirstCycle)

\* Cycles keep being triggered and tasks return; no failure is permanent: a
\* step of a cycle that can succeed again and again does succeed.
Fairness ==
    /\ WF_vars(Begin(FirstCycle))
    /\ WF_vars(TaskEnd(FirstCycle))
    /\ SF_vars(ClaimStep(FirstCycle, 0))
    /\ SF_vars(Extract(FirstCycle))
    /\ \A i \in 1..MaxBatchLogs : SF_vars(InsertLog(FirstCycle) /\ idx[FirstCycle] = i)
    /\ SF_vars(Commit(FirstCycle))

SpecLive == Init /\ [][NextLive]_vars /\ Fairness

\* ================================================================ claims
FailedAfterClaim == {"extract_failed", "insert_failed", "commit_failed"}

\* The logs extraction yields for block h, as natural key and address.
HasLogsOf(table, h) ==
    \A t \in DOMAIN chain[h].receipts :
        \A l \in DOMAIN chain[h].receipts[t] :
            \E r \in Rows(table) :
                /\ NaturalKey(r) = <<l - 1, t - 1, h>>
                /\ r.address = chain[h].receipts[t][l].address

BlockHasLogs(h) == \E t \in DOMAIN chain[h].receipts : chain[h].receipts[t] # <<>>

\* C1: when a cycle that claimed a batch fails at the extraction hand-off, at
\* a log insert or at commit, then in the committed tables after that step
\* every row it claimed is Pending, and no logs row the cycle wrote (none of
\* a claimed block) is present.
C1_RollbackRevertsClaim ==
    [][\A c \in Cycles :
          (pc[c] \in {"claimed", "inserting"} /\ pc'[c] \in FailedAfterClaim)
          => /\ \A h \in claimed[c] : StatusOf(sync_status', h) = {Pending}
             /\ \A r \in Rows(tx[c].logs) : CopiesIn(r, logs') = CopiesIn(r, logs)
             /\ \A r \in Rows(logs') : r.substrate_block_hash \notin claimed[c]]_vars

\* A cycle claimed a batch, wrote logs of it, failed at commit, and its rows
\* are Pending with no logs row of theirs in the table.
C1_Witness ==
    \E c \in Cycles :
        /\ pc[c] = "commit_failed"
        /\ \E h \in claimed[c] : BlockHasLogs(h)
        /\ \A h \in claimed[c] : StatusOf(sync_status, h) = {Pending}
        /\ \A r \in Rows(logs) : r.substrate_block_hash \notin claimed[c]

\* C2: in every committed state, every block hash whose sync_status row is
\* Indexed has all the logs extraction yields for it in the logs table (also
\* a row the claiming cycle could not decode).
C2_IndexedHaveLogs ==
    \A h \in Hashes : Indexed \in StatusOf(sync_status, h) => HasLogsOf(logs, h)

Distinct(hashes) == \A i, j \in DOMAIN hashes : hashes[i] = hashes[j] => i = j

\* C5: a call of insert_sync_status whose hashes overlap the rows present
\* leaves no duplicate row, leaves the rows present as they are, and
\* succeeds without error.
C5_InsertSyncStatusIgnoresDuplicates ==
    [][\A hashes \in HashVecs :
          (/\ insert_sync_status(hashes)
           /\ Distinct(hashes)
           /\ \E i \in DOMAIN hashes : hashes[i] \in HashesOf(sync_status))
          => /\ SyncStatusUnique(sync_status')
             /\ \A h \in HashesOf(sync_status) :
                   StatusOf(sync_status', h) = StatusOf(sync_status, h)
             /\ iss_result' = "Ok"]_vars

\* C6: after insert_sync_status(hashes) every hash of the call has a row: a
\* hash without a row before has a Pending row (also when another hash of the
\* call had a row), a hash with a row keeps its status.
C6_InsertSyncStatusCreatesPending ==
    [][\A hashes \in HashVecs :
          (insert_sync_status(hashes) /\ Distinct(hashes))
          => \A i \in DOMAIN hashes :
                IF hashes[i] \in HashesOf(sync_status)
                THEN StatusOf(sync_status', hashes[i]) = StatusOf(sync_status, hashes[i])
                ELSE StatusOf(sync_status', hashes[i]) = {Pending}]_vars

\* C7: in every step the committed status of a hash changes from Pending to
\* Indexed or not at all: an Indexed hash stays Indexed, and no row goes away.
C7_StatusOnlyAdvances ==
    [][\A h \in HashesOf(sync_status) :
          /\ StatusOf(sync_status', h) # {}
          /\ StatusOf(sync_status', h) \in {StatusOf(sync_status, h), {Indexed}}
          /\ Indexed \in StatusOf(sync_status, h) => StatusOf(sync_status', h) = {Indexed}]_vars

\* A hash is Indexed, a later cycle that had claimed rows was rolled back, and
\* the last insert_sync_status named a row that was present.
C7_Witness ==
    /\ \E h \in committedClaims : StatusOf(sync_status, h) = {Indexed}
    /\ \E c \in Cycles : pc[c] \in FailedAfterClaim /\ claimed[c] # {}
    /\ iss_result = "Err"

\* C9: the claim of a cycle returns no row that a cycle which committed
\* before had claimed.
C9_CommittedRowsNotReclaimed ==
    [][\A c \in Cycles :
          (pc[c] = "begun" /\ pc'[c] = "claimed")
          => claimed'[c] \cap committedClaims = {}]_vars

\* A cycle holds a claim made after another cycle's claim was committed.
C9_Witness ==
    \E c \in Cycles :
        /\ pc[c] = "claimed"
        /\ claimed[c] # {}
        /\ committedClaims # {}

\* C4: an INSERT of a log whose natural key is in the logs table leaves the
\* table as it is and is no error of the cycle; after a batch whose keys were
\* all present the table is the one before the batch.
C4_InsertPresentKeyIsNoop ==
    [][\A c \in Cycles :
          InsertLog(c)
          => /\ NaturalKey(task_logs[c][idx[c]]) \in KeysOf(tx[c].logs)
                   => /\ tx'[c].logs = tx[c].logs
                      /\ pc'[c] = "inserting"
                      /\ idx'[c] = idx[c] + 1
             /\ (\A i \in 1..idx[c] : NaturalKey(task_logs[c][i]) \in KeysOf(logs))
                   => /\ pc'[c] = "inserting"
                      /\ tx'[c].logs = logs]_vars

\* A cycle has inserted a batch of two logs or more whose keys were all
\* present, one of them stored under another block_number: the table is the
\* one before the batch.
C4_Witness ==
    \E c \in Cycles :
        /\ pc[c] = "inserting"
        /\ idx[c] > Len(task_logs[c])
        /\ Len(task_logs[c]) >= 2
        /\ \A i \in DOMAIN task_logs[c] : NaturalKey(task_logs[c][i]) \in KeysOf(logs)
        /\ \E i \in DOMAIN task_logs[c] : task_logs[c][i] \notin Rows(logs)
        /\ tx[c].logs = logs

Max(a, b) == IF a >= b THEN a ELSE b

\* C8: from N Pending rows, cycles run one after another without failure
\* leave at most N - k * BatchSize rows Pending after k cycles; after
\* ceil(N / BatchSize) cycles every row is Indexed and the logs table is the
\* set of rows extraction yields for the N blocks, each once.
C8_DrainsInCeilCycles ==
    LET N == Cardinality(HashesOf(sync_status))
        P == Cardinality(ClaimCandidates(sync_status))
    IN  /\ P <= Max(0, N - BatchSize * cyclesDone)
        /\ cyclesDone >= CeilDiv(N, BatchSize)
              => /\ \A h \in HashesOf(sync_status) : StatusOf(sync_status, h) = {Indexed}
                 /\ LogsUnique(logs)
                 /\ Rows(logs) = ExtractedOnce(HashesOf(sync_status))

\* All hashes were Pending, more than one batch of them, and the last of
\* ceil(N / BatchSize) cycles has committed.
C8_Witness ==
    /\ counting
    /\ Cardinality(HashesOf(sync_status)) = NumHashes
    /\ NumHashes > BatchSize
    /\ cyclesDone = CeilDiv(NumHashes, BatchSize)
    /\ ClaimCandidates(sync_status) = {}
    /\ logs # EmptyBag

\* The places <<i, t, l>> of the logs of a batch: block i of the batch,
\* receipt t of the block, log l of the receipt.
LogPlaces(hashes) ==
    UNION {UNION {{<<i, t, l>> : l \in DOMAIN chain[hashes[i]].receipts[t]} :
                      t \in DOMAIN chain[hashes[i]].receipts} :
               i \in DOMAIN hashes}

PlaceBefore(a, b) ==
    \/ a[1] < b[1]
    \/ a[1] = b[1] /\ a[2] < b[2]
    \/ a[1] = b[1] /\ a[2] = b[2] /\ a[3] < b[3]

TopicField(r, k) ==
    CASE k = 1 -> r.topic_1
      [] k = 2 -> r.topic_2
      [] k = 3 -> r.topic_3
      [] OTHER -> r.topic_4

\* C10: extraction emits one record per log of each receipt, in block, then
\* receipt, then log order; transaction_index and log_index are the
\* zero-based places, substrate_block_hash is the input hash, address is the
\* log's, topic_k is the k-th topic or zero when the log has fewer.
C10_ExtractionEmitsEachLog ==
    \A c \in Cycles :
        pc[c] = "inserting" =>
            LET places == LogPlaces(to_index[c]) IN
            /\ Len(task_logs[c]) = Cardinality(places)
            /\ \A p \in places :
                  LET r == task_logs[c][1 + Cardinality({q \in places : PlaceBefore(q, p)})]
                      src == chain[to_index[c][p[1]]].receipts[p[2]][p[3]]
                  IN  /\ r.transaction_index = p[2] - 1
                      /\ r.log_index = p[3] - 1
                      /\ r.substrate_block_hash = to_index[c][p[1]]
                      /\ r.address = src.address
                      /\ \A k \in 1..4 :
                            TopicField(r, k) =
                                IF k <= Len(src.topics) THEN src.topics[k] ELSE ZeroH256

\* Extraction ran over two blocks, one of them with a first receipt without
\* logs and a second receipt with a log without topics and a log with more
\* than four topics.
C10_Witness ==
    \E c \in Cycles :
        /\ pc[c] = "inserting"
        /\ Len(to_index[c]) = 2
        /\ Len(task_logs[c]) >= 3
        /\ \E i \in DOMAIN to_index[c] :
              LET receipts == chain[to_index[c][i]].receipts IN
              /\ Len(receipts) = 2
              /\ receipts[1] = <<>>
              /\ \E l \in DOMAIN receipts[2] : receipts[2][l].topics = <<>>
              /\ \E l \in DOMAIN receipts[2] : Len(receipts[2][l].topics) > 4

\* The largest value of the stored integer type, i32::MAX.
I32Max == ((Limb \div 2) - 1) * Limb + (Limb - 1)

\* C11: for every height of a block, heights above 2^31 - 1 included, the
\* block_number of the emitted records is not negative and is the height
\* saturated to the maximum of the stored integer type.
C11_BlockNumberSaturates ==
    \A c \in Cycles :
        pc[c] = "inserting" =>
            \A i \in DOMAIN task_logs[c] :
                LET r == task_logs[c][i]
                    n == chain[r.substrate_block_hash].number
                IN  n # NoNumber =>
                        /\ r.block_number >= 0
                        /\ r.block_number =
                               IF n.hi > (Limb \div 2) - 1 THEN I32Max ELSE n.hi * Limb + n.lo

\* C12: the rows of the logs table are append-only: no step, the commit of a
\* cycle that extracted an indexed block again under another block_number
\* included, modifies or removes a row of the committed table, and no insert
\* of a cycle modifies or removes a row its transaction sees.
C12_LogsAppendOnly ==
    [][/\ \A r \in Rows(logs) : CopiesIn(r, logs') = CopiesIn(r, logs)
       /\ \A c \in Cycles :
             pc[c] \in Open /\ pc'[c] \in Open
                 => \A r \in Rows(tx[c].logs) :
                        CopiesIn(r, tx'[c].logs) = CopiesIn(r, tx[c].logs)]_vars

\* A cycle committed the extraction of a block of which the table held a row
\* under another block_number: the row is there as it was.
C12_Witness ==
    \E c \in Cycles :
        /\ pc[c] = "committed"
        /\ \E r \in Rows(logs) :
              /\ r.substrate_block_hash \in claimed[c]
              /\ r.block_number # substrate_block_number(r.substrate_block_hash)

\* The records of block h among the records recs, as natural key and address.
EmitsLogsOf(recs, h) ==
    \A t \in DOMAIN chain[h].receipts :
        \A l \in DOMAIN chain[h].receipts[t] :
            \E i \in DOMAIN recs :
                /\ NaturalKey(recs[i]) = <<l - 1, t - 1, h>>
                /\ recs[i].address = chain[h].receipts[t][l].address

\* C13: schema resolution does not fail the caller: a slot that is absent,
\* unreadable or undecodable resolves to Undefined, a resolved schema without
\* a registered handler gets the fallback handler, and extraction of the
\* block goes on to the insert loop with what that handler reads.
C13_SchemaResolutionFallsBack ==
    \A c \in Cycles :
        \A i \in DOMAIN to_index[c] :
            LET h == to_index[c][i] IN
            /\ chain[h].slot \in {"absent", "unreadable", "undecodable"}
                   => onchain_storage_schema(h) = "Undefined"
            /\ onchain_storage_schema(h) \notin overrides.schemas
                   => /\ Handler(h) = "fallback"
                      /\ pc[c] = "inserting" /\ "fallback" \in chain[h].readable
                             => EmitsLogsOf(task_logs[c], h)

\* Extraction went on to the insert loop over two blocks: one with a slot
\* that does not decode and no handler registered for Undefined, one with a
\* schema that has no registered handler; the fallback read the logs of both.
C13_Witness ==
    \E c \in Cycles :
        /\ pc[c] = "inserting"
        /\ "Undefined" \notin overrides.schemas
        /\ \E i, j \in DOMAIN to_index[c] :
              /\ chain[to_index[c][i]].slot \in {"absent", "unreadable", "undecodable"}
              /\ chain[to_index[c][j]].slot \in Schemas \ overrides.schemas
              /\ BlockHasLogs(to_index[c][i])
              /\ BlockHasLogs(to_index[c][j])
              /\ EmitsLogsOf(task_logs[c], to_index[c][i])
              /\ EmitsLogsOf(task_logs[c], to_index[c][j])
              /\ chain[to_index[c][j]].readable = {"fallback"}

\* C14: create_if_not_exists over a file where the tables and the indexes
\* exist succeeds and leaves the rows of sync_status and of logs and the set
\* of schema objects as they were.
C14_CreateIfNotExistsIsIdempotent ==
    [][create_if_not_exists /\ SchemaObjects \subseteq objects
          => /\ new_result' = "Ok"
             /\ objects' = objects
             /\ sync_status' = sync_status
             /\ logs' = logs]_vars

\* Backend::new returned Ok over a file that holds rows in both tables,
\* Pending and Indexed rows among them.
C14_Witness ==
    /\ new_result = "Ok"
    /\ objects = SchemaObjects
    /\ logs # EmptyBag
    /\ \E r \in Rows(sync_status) : r.status = Indexed
    /\ \E r \in Rows(sync_status) : r.status = Pending

\* The hashes whose row is Pending in the committed sync_status table.
PendingHashes == {h \in Hashes : StatusOf(sync_status, h) = {Pending}}

\* C15: the claim of a cycle returns at most BatchSize hashes, each of a row
\* that was Pending in the state the claim read, and exactly BatchSize when
\* that many rows are Pending; each is Indexed inside the transaction of the
\* cycle, which is still open: the committed table is as it was.
C15_ClaimTakesBatch ==
    [][\A c \in Cycles :
          pc[c] = "begun" /\ pc'[c] = "claimed"
          => /\ Cardinality(claimed'[c]) <= BatchSize
             /\ claimed'[c] \subseteq PendingHashes
             /\ Cardinality(PendingHashes) >= BatchSize
                    => Cardinality(claimed'[c]) = BatchSize
             /\ \A i \in DOMAIN to_index'[c] : to_index'[c][i] \in claimed'[c]
             /\ \A h \in claimed'[c] : StatusOf(tx'[c].sync_status, h) = {Indexed}
             /\ sync_status' = sync_status
             /\ writer' = c]_vars

\* A cycle claimed BatchSize rows of more Pending ones: they are Indexed in
\* its transaction and Pending in the committed table.
C15_Witness ==
    \E c \in Cycles :
        /\ pc[c] = "claimed"
        /\ Cardinality(claimed[c]) = BatchSize
        /\ Cardinality(PendingHashes) > BatchSize
        /\ claimed[c] \subseteq PendingHashes
        /\ \A h \in claimed[c] : StatusOf(tx[c].sync_status, h) = {Indexed}

\* C16: when the client resolves no height for a claimed block, extraction
\* gives the records of that block block_number 0 and goes on: the logs of
\* that block and of every other block of the batch are emitted.
C16_UnresolvedHeightIsZero ==
    \A c \in Cycles :
        pc[c] = "inserting" /\ (\E i \in DOMAIN to_index[c] : chain[to_index[c][i]].number = NoNumber)
        => /\ \A j \in DOMAIN task_logs[c] :
                 chain[task_logs[c][j].substrate_block_hash].number = NoNumber
                     => task_logs[c][j].block_number = 0
           /\ \A i \in DOMAIN to_index[c] : EmitsLogsOf(task_logs[c], to_index[c][i])

\* Extraction ran over a block without height and a block with one, both
\* with logs: there are records with block_number 0 and records with the
\* height of the other block.
C16_Witness ==
    \E c \in Cycles :
        /\ pc[c] = "inserting"
        /\ \E i, j \in DOMAIN to_index[c] :
              /\ chain[to_index[c][i]].number = NoNumber
              /\ chain[to_index[c][j]].number # NoNumber
              /\ BlockHasLogs(to_index[c][i])
              /\ BlockHasLogs(to_index[c][j])
        /\ \E k \in DOMAIN task_logs[c] : task_logs[c][k].block_number = 0
        /\ \E k \in DOMAIN task_logs[c] : task_logs[c][k].block_number > 0

\* C17: when the claim query of a cycle fails, the cycle ends without a
\* commit: the sync_status and logs tables are as before, every row that was
\* Pending is Pending, the cycle holds neither rows nor the write lock, and
\* its task returns leaving the tables alone, so that the next cycle claims
\* from the same Pending rows.
C17_ClaimFailureLeavesPending ==
    [][\A c \in Cycles :
          /\ pc[c] = "begun" /\ pc'[c] = "claim_failed"
             => /\ sync_status' = sync_status
                /\ logs' = logs
                /\ \A h \in PendingHashes : StatusOf(sync_status', h) = {Pending}
                /\ committedClaims' = committedClaims
                /\ tx'[c] = NoTx
                /\ claimed'[c] = {}
                /\ writer' = writer
                /\ writer' # c
          /\ pc[c] = "claim_failed"
             => /\ pc'[c] = "idle"
                /\ sync_status' = sync_status
                /\ logs' = logs]_vars

\* The claim query of a cycle failed while rows are Pending, the lock is free
\* and logs of an earlier cycle are committed.
C17_Witness ==
    \E c \in Cycles :
        /\ pc[c] = "claim_failed"
        /\ PendingHashes # {}
        /\ writer = NoWriter
        /\ logs # EmptyBag

\* C18: a cycle whose claim returns no hash (no row is Pending) has nothing
\* to extract and nothing to insert, and its commit leaves the sync_status
\* table and the logs table as they were.
C18_EmptyClaimCommitsNothing ==
    [][\A c \in Cycles :
          /\ pc[c] = "begun" /\ pc'[c] = "claimed" /\ PendingHashes = {}
             => /\ claimed'[c] = {}
                /\ to_index'[c] = <<>>
                /\ tx'[c] = [sync_status |-> sync_status, logs |-> logs]
          /\ pc[c] = "claimed" /\ pc'[c] = "inserting" /\ claimed[c] = {}
             => /\ task_logs'[c] = <<>>
                /\ idx'[c] > Len(task_logs'[c])
          /\ pc[c] = "inserting" /\ pc'[c] = "committed" /\ claimed[c] = {}
             => /\ sync_status' = sync_status
                /\ logs' = logs]_vars

\* A cycle that claimed nothing has committed over tables that hold Indexed
\* rows and logs.
C18_Witness ==
    \E c \in Cycles :
        /\ pc[c] = "committed"
        /\ claimed[c] = {}
        /\ sync_status # EmptyBag
        /\ PendingHashes = {}
        /\ logs # EmptyBag

\* C19: in every committed state each row of the logs table carries the hash
\* of a block whose sync_status row exists and is Indexed: no log is visible
\* for a block that is Pending or has no row.
C19_LogsOnlyOfIndexed ==
    \A r \in Rows(logs) : StatusOf(sync_status, r.substrate_block_hash) = {Indexed}

\* Logs of an Indexed block are committed while a cycle holds, in its open
\* transaction, logs of a block that is Pending in the committed table.
C19_Witness ==
    /\ logs # EmptyBag
    /\ \E c \in Cycles :
          /\ pc[c] = "inserting"
          /\ \E r \in Rows(tx[c].logs) :
                /\ r \notin Rows(logs)
                /\ StatusOf(sync_status, r.substrate_block_hash) = {Pending}

\* C20: when cycles keep being triggered and no failure is permanent, every
\* hash with a Pending row is eventually Indexed in the committed table,
\* also when insert_sync_status keeps adding hashes and cycles aborted.
C20_PendingEventuallyIndexed ==
    \A h \in Hashes :
        (StatusOf(sync_status, h) = {Pending}) ~> (StatusOf(sync_status, h) = {Indexed})

\* Every hash got a row, by more than one insert_sync_status call, and all
\* are Indexed with their logs committed, while a cycle has just aborted.
C20_Witness ==
    /\ HashesOf(sync_status) = Hashes
    /\ PendingHashes = {}
    /\ \A h \in Hashes : StatusOf(sync_status, h) = {Indexed} /\ HasLogsOf(logs, h)
    /\ NumHashes > MaxInsert
    /\ \E c \in Cycles : pc[c] \in {"claim_failed", "commit_failed"}

====
